---------------------------- MODULE Spec2Model ----------------------------
(***************************************************************************)
(* Model of macropad_tool's message encoder (src/messages.rs) and mapping  *)
(* validator (src/mapping.rs).                                             *)
(*                                                                         *)
(* Strings are sequences of one-character strings, bytes are 0..255, and   *)
(* a Vec<u8> is a sequence of bytes: byte k of the source (0-based) is     *)
(* element k+1 of the sequence.                                            *)
(***************************************************************************)
EXTENDS Integers, Sequences, FiniteSets, TLC

VARIABLES call, args, result

vars == <<call, args, result>>

(***************************************************************************)
(* Characters and strings (Rust std, as the source uses them).             *)
(***************************************************************************)
Lowers ==
    << "a", "b", "c", "d", "e", "f", "g", "h", "i", "j", "k", "l", "m",
       "n", "o", "p", "q", "r", "s", "t", "u", "v", "w", "x", "y", "z" >>

Uppers ==
    << "A", "B", "C", "D", "E", "F", "G", "H", "I", "J", "K", "L", "M",
       "N", "O", "P", "Q", "R", "S", "T", "U", "V", "W", "X", "Y", "Z" >>

IndexOf(seq, c) ==
    IF \E i \in 1..Len(seq) : seq[i] = c
    THEN CHOOSE i \in 1..Len(seq) : seq[i] = c
    ELSE 0

\* char::to_ascii_uppercase
to_ascii_uppercase(c) ==
    LET i == IndexOf(Lowers, c) IN IF i = 0 THEN c ELSE Uppers[i]

\* the ASCII lower-casing under which the key names are compared
to_ascii_lowercase(c) ==
    LET i == IndexOf(Uppers, c) IN IF i = 0 THEN c ELSE Lowers[i]

eq_ignore_ascii_case(s, t) ==
    /\ Len(s) = Len(t)
    /\ \A i \in 1..Len(s) : to_ascii_lowercase(s[i]) = to_ascii_lowercase(t[i])

\* str::split(sep): the pieces between separators, empty pieces included;
\* the empty string splits into one empty piece. Piece k holds the
\* characters that k - 1 separators precede.
split(s, sep) ==
    LET seps == { i \in 1..Len(s) : s[i] = sep }
        before == [i \in 1..Len(s) |-> Cardinality({ j \in seps : j < i })]
        piece(k) ==
            LET at == { i \in 1..Len(s) : i \notin seps /\ before[i] = k - 1 }
                first == CHOOSE i \in at : \A j \in at : i <= j
            IN  IF at = {} THEN << >>
                ELSE [n \in 1..Cardinality(at) |-> s[first + n - 1]]
    IN  [k \in 1..(Cardinality(seps) + 1) |-> piece(k)]

\* u32::pow
RECURSIVE pow(_, _)
pow(b, e) == IF e = 0 THEN 1 ELSE b * pow(b, e - 1)

\* u8 | u8
RECURSIVE BitOr(_, _)
BitOr(x, y) ==
    IF x = 0 THEN y
    ELSE IF y = 0 THEN x
    ELSE (IF x % 2 = 1 \/ y % 2 = 1 THEN 1 ELSE 0) + 2 * BitOr(x \div 2, y \div 2)

Zeros(n) == [i \in 1..n |-> 0]

(***************************************************************************)
(* The key vocabulary (crate::keyboard) and the orientation names          *)
(* (crate::config) and the constant of crate::consts.                      *)
(***************************************************************************)
MAX_KEY_PRESSES == 17

U8_MAX == 255

ModifierTable ==
    { << << "c", "t", "r", "l" >>, 0 >>,
      << << "s", "h", "i", "f", "t" >>, 1 >>,
      << << "a", "l", "t" >>, 2 >> }

WellKnownCodeTable ==
    { << << "a" >>, 4 >>,
      << << "b" >>, 5 >>,
      << << "s" >>, 22 >> }

MediaCodeTable ==
    { << << "p", "l", "a", "y" >>, 205 >>,
      << << "m", "u", "t", "e" >>, 226 >> }

LedColorTable ==
    { << "Red", 16 >>, << "Orange", 32 >>, << "Yellow", 48 >>,
      << "Green", 64 >>, << "Cyan", 80 >>, << "Blue", 96 >>,
      << "Purple", 112 >> }

OrientationNames ==
    { << "N", "o", "r", "m", "a", "l" >>,
      << "I", "n", "v", "e", "r", "t", "e", "d" >> }

\* <Enum as FromStr>::from_str followed by ToPrimitive::to_u8:
\* [ok |-> whether the name parses, code |-> the variant's number]
FromStr(table, key) ==
    LET hits == { e \in table : eq_ignore_ascii_case(e[1], key) }
    IN  IF hits = {} THEN [ok |-> FALSE, code |-> 0]
        ELSE [ok |-> TRUE, code |-> (CHOOSE e \in hits : TRUE)[2]]

Modifier_from_str(key) == FromStr(ModifierTable, key)

WellKnownCode_from_str(key) == FromStr(WellKnownCodeTable, key)

MediaCode_from_str(key) == FromStr(MediaCodeTable, key)

Orientation_from_str(name) == name \in OrientationNames

LedColor_to_u8(color) == (CHOOSE e \in LedColorTable : e[1] = color)[2]

(***************************************************************************)
(* Results.                                                                *)
(***************************************************************************)
NoResult == [kind |-> "None"]

OkUnit == [kind |-> "Ok"]

OkMsg(msg) == [kind |-> "Ok", msg |-> msg]

\* an anyhow::Error: the message's format and the values formatted into it
Err(err, layer, row, expected, found, token) ==
    [kind |-> "Err", err |-> err, layer |-> layer, row |-> row,
     expected |-> expected, found |-> found, token |-> token]

\* the thread panics (no value is returned)
Panic == [kind |-> "Panic"]

\* the process is aborted by the allocator (no value is returned)
Abort == [kind |-> "Abort"]

(***************************************************************************)
(* Messages (src/messages.rs).                                             *)
(***************************************************************************)
\* read_config with the encoder count and the layer written the wrong way round
read_config_swapped(keys, encoders, layer) ==
    << 3, 250, keys, layer, encoders, 2, 224, 203, 128, 0, 160, 204, 128, 0,
       124, 242, 2, 105, 0, 0, 0, 0, 77, 0, 44, 2, 160, 204, 128, 0, 232, 0,
       0, 0, 185, 0, 0, 0, 0, 0, 0, 0, 144, 204, 128, 0, 32, 205, 128, 0,
       192, 132, 38, 2, 160, 98, 47, 2, 192, 204, 128, 0, 199, 182, 194 >>

read_config(keys, encoders, layer) ==
    << 3, 250, keys, encoders, layer, 2, 224, 203, 128, 0, 160, 204, 128, 0,
       124, 242, 2, 105, 0, 0, 0, 0, 77, 0, 44, 2, 160, 204, 128, 0, 232, 0,
       0, 0, 185, 0, 0, 0, 0, 0, 0, 0, 144, 204, 128, 0, 32, 205, 128, 0,
       192, 132, 38, 2, 160, 98, 47, 2, 192, 204, 128, 0, 199, 182, 194 >>

device_type ==
    << 3, 251, 251, 251, 31, 2, 60, 208, 128, 0, 236, 207, 128, 0, 204, 210,
       155, 0, 240, 207, 128, 0, 60, 208, 128, 0, 86, 131, 210, 123, 208, 13,
       72, 0, 12, 208, 128, 0, 168, 61, 52, 2, 72, 208, 128, 0, 112, 245, 30,
       98, 152, 218, 17, 98, 12, 128, 0, 0, 0, 130, 38, 2, 255, 255, 255 >>

end_program ==
    << 3, 253, 254, 255, 0, 0, 0, 0, 0, 0, 0, 0, 0, 0, 0, 0, 0, 0, 0, 0, 0,
       0, 0, 0, 0, 0, 0, 0, 0, 0, 0, 0, 0, 0, 0, 0, 0, 0, 0, 0, 0, 0, 0, 0,
       0, 0, 0, 0, 0, 0, 0, 0, 0, 0, 0, 0, 0, 0, 0, 0, 0, 0, 0, 0, 0 >>

program_led(mode, color) ==
    LET m_c == BitOr(LedColor_to_u8(color), mode)
    IN  << 3, 254, 176, 1, 8, 0, 0, 0, 0, 0, 1, 0, m_c, 0, 0, 0, 0, 0, 0, 0,
           0, 0, 0, 0, 0, 0, 0, 0, 0, 0, 0, 0, 0, 0, 0, 0, 0, 0, 0, 0, 0, 0,
           0, 0, 0, 0, 0, 0, 0, 0, 0, 0, 0, 0, 0, 0, 0, 0, 0, 0, 0, 0, 0, 0,
           0 >>

\* One pass of the loop over the keys of a chord (messages.rs:95-119).
\* st = [i, msg, cnt, m_c, wkk]; i is the 1-based position of the key
\* (enumerate() + 1). A MediaCode name changes neither m_c nor wkk
\* (messages.rs:104-107), like a name that parses as nothing.
KeyStep(kc, st) ==
    LET i == st.i
        key == kc[i]
        m == Modifier_from_str(key)
        w == WellKnownCode_from_str(key)
        m_c == IF m.ok THEN pow(0, m.code) % 256 ELSE st.m_c
        wkk == IF ~m.ok /\ w.ok THEN w.code ELSE st.wkk
    IN  IF Len(kc) > 1
        THEN IF i = 1
             THEN [i |-> i + 1, msg |-> Append(st.msg, m_c), cnt |-> st.cnt,
                   m_c |-> m_c, wkk |-> wkk]
             ELSE [i |-> i + 1, msg |-> Append(st.msg, wkk),
                   cnt |-> st.cnt + 1, m_c |-> m_c, wkk |-> wkk]
        ELSE [i |-> i + 1, msg |-> st.msg \o << m_c, wkk >>,
              cnt |-> st.cnt + 1, m_c |-> m_c, wkk |-> wkk]

RECURSIVE KeyLoop(_, _)
KeyLoop(kc, st) ==
    IF st.i > Len(kc) THEN st ELSE KeyLoop(kc, KeyStep(kc, st))

\* The loop over the comma-separated chords (messages.rs:91-120).
\* acc = [n, msg, cnt], n the 1-based position of the chord; m_c and wkk
\* start at 0 for every chord.
RECURSIVE BindingLoop(_, _)
BindingLoop(keys, acc) ==
    IF acc.n > Len(keys) THEN acc
    ELSE LET kc == split(keys[acc.n], "-")
             st == KeyLoop(kc, [i |-> 1, msg |-> acc.msg, cnt |-> acc.cnt,
                                m_c |-> 0, wkk |-> 0])
         IN  BindingLoop(keys, [n |-> acc.n + 1, msg |-> st.msg,
                                cnt |-> st.cnt])

\* The set of outcomes of build_key_msg. MAX_KEY_PRESSES - cnt is a usize
\* subtraction: when cnt > MAX_KEY_PRESSES a build with overflow checks
\* panics, and one without wraps to about 2^64 iterations of a push, which
\* ends in the allocator aborting the process.
build_key_msg(key_chord, layer, key_pos, delay) ==
    LET keys == split(key_chord, ",")
    IN  IF Len(keys) > U8_MAX
        THEN { Err("out of range integral type conversion attempted",
                   0, 0, 0, 0, << >>) }
        ELSE LET header == << 3, 253, key_pos, layer, 1, 0, 0, 0, 0, 0,
                              Len(keys) >>
                 body == BindingLoop(keys, [n |-> 1, msg |-> header,
                                            cnt |-> 0])
             IN  IF body.cnt > MAX_KEY_PRESSES
                 THEN { Panic, Abort }
                 ELSE { OkMsg(body.msg
                              \o Zeros(2 * (MAX_KEY_PRESSES - body.cnt + 1))
                              \o Zeros(18)) }

(***************************************************************************)
(* Mapping (src/mapping.rs).                                               *)
(***************************************************************************)
Device(orientation, rows, cols, knobs) ==
    [orientation |-> orientation, rows |-> rows, cols |-> cols,
     knobs |-> knobs]

Knob(ccw, click, cw) == [ccw |-> ccw, click |-> click, cw |-> cw]

Layer(buttons, knobs) == [buttons |-> buttons, knobs |-> knobs]

Macropad(device, layers) == [device |-> device, layers |-> layers]

uppercase_first(data) ==
    [i \in 1..Len(data) |->
        IF i = 1 THEN to_ascii_uppercase(data[i]) ELSE data[i]]

is_control_key(keystr) == Modifier_from_str(keystr).ok

is_media_key(keystr) == MediaCode_from_str(keystr).ok

is_regular_key(keystr) == WellKnownCode_from_str(keystr).ok

\* The body of the match on i (mapping.rs:142-155): the value assigned to
\* `found` in pass i.
KeyTest(i, da_key) ==
    CASE i = 0 -> is_control_key(da_key)
      [] i = 1 -> is_media_key(da_key)
      [] i = 2 -> is_regular_key(da_key)

\* for i in 0..3 { found = <test i>; } (mapping.rs:140-156)
RECURSIVE FoundLoop(_, _, _)
FoundLoop(i, found, da_key) ==
    IF i >= 3 THEN found ELSE FoundLoop(i + 1, KeyTest(i, da_key), da_key)

\* for k in keys { ... } (mapping.rs:136-160)
RECURSIVE CheckKeys(_, _)
CheckKeys(keys, n) ==
    IF n > Len(keys) THEN OkUnit
    ELSE LET k == keys[n]
             da_key == uppercase_first(k)
             found == FoundLoop(0, FALSE, da_key)
         IN  IF ~found THEN Err("unknown key", 0, 0, 0, 0, k)
             ELSE CheckKeys(keys, n + 1)

validate_key_mapping(key) ==
    LET keys == split(key, "-")
    IN  IF Len(keys) > MAX_KEY_PRESSES
        THEN Err("maximum key presses", 0, 0, MAX_KEY_PRESSES, 0, << >>)
        ELSE CheckKeys(keys, 1)

\* for btn in btn_mapping { validate_key_mapping(btn)?; } (mapping.rs:105-108)
RECURSIVE ButtonLoop(_, _)
ButtonLoop(btn_mapping, k) ==
    IF k > Len(btn_mapping) THEN OkUnit
    ELSE LET r == validate_key_mapping(btn_mapping[k])
         IN  IF r.kind = "Err" THEN r ELSE ButtonLoop(btn_mapping, k + 1)

\* for (j, btn_mapping) in layer.buttons ... (mapping.rs:93-109); i and j
\* are the 1-based numbers the messages print (i + 1, j + 1).
RECURSIVE RowLoop(_, _, _)
RowLoop(cfg, i, j) ==
    LET buttons == cfg.layers[i].buttons
    IN  IF j > Len(buttons) THEN OkUnit
        ELSE IF Len(buttons[j]) # cfg.device.cols
        THEN Err("columns mismatch", i, j, cfg.device.cols, Len(buttons[j]),
                 << >>)
        ELSE LET r == ButtonLoop(buttons[j], 1)
             IN  IF r.kind = "Err" THEN r ELSE RowLoop(cfg, i, j + 1)

\* for (i, layer) in cfg.layers ... (mapping.rs:81-120)
RECURSIVE LayerLoop(_, _)
LayerLoop(cfg, i) ==
    IF i > Len(cfg.layers) THEN OkUnit
    ELSE LET layer == cfg.layers[i]
         IN  IF Len(layer.buttons) # cfg.device.rows
             THEN Err("rows mismatch", i, 0, cfg.device.rows,
                      Len(layer.buttons), << >>)
             ELSE LET r == RowLoop(cfg, i, 1)
                  IN  IF r.kind = "Err" THEN r
                      ELSE IF Len(layer.knobs) # cfg.device.knobs
                      THEN Err("knobs mismatch", i, 0, cfg.device.knobs,
                               Len(layer.knobs), << >>)
                      ELSE LayerLoop(cfg, i + 1)

\* validate with the layer count checked before the orientation
validate_layers_first(cfg) ==
    IF Len(cfg.layers) = 0 \/ Len(cfg.layers) > 3
    THEN Err("number of layers", 0, 0, 0, Len(cfg.layers), << >>)
    ELSE IF ~Orientation_from_str(uppercase_first(cfg.device.orientation))
    THEN Err("orientation", 0, 0, 0, 0, cfg.device.orientation)
    ELSE LayerLoop(cfg, 1)

\* validate, on the configuration Mapping::read() returned
validate(cfg) ==
    IF ~Orientation_from_str(uppercase_first(cfg.device.orientation))
    THEN Err("orientation", 0, 0, 0, 0, cfg.device.orientation)
    ELSE IF Len(cfg.layers) = 0 \/ Len(cfg.layers) > 3
    THEN Err("number of layers", 0, 0, 0, Len(cfg.layers), << >>)
    ELSE LayerLoop(cfg, 1)

(***************************************************************************)
(* Inputs.                                                                 *)
(***************************************************************************)
MaxBindingKeys == 3

MaxRows == 2

MaxCols == 2

MaxKnobs == 1

MaxLayers == 4

SeqsBetween(S, lo, hi) == UNION { [1..n -> S] : n \in lo..hi }

Repeat(x, n) == [i \in 1..n |-> x]

\* the strings of `parts` joined by the character sep
RECURSIVE Join(_, _)
Join(parts, sep) ==
    IF Len(parts) = 0 THEN << >>
    ELSE IF Len(parts) = 1 THEN parts[1]
    ELSE parts[1] \o << sep >> \o Join(Tail(parts), sep)

\* the keys ks[1..n] with separator seps[m] between ks[m] and ks[m + 1]
RECURSIVE Interleave(_, _, _)
Interleave(ks, seps, n) ==
    IF n = 1 THEN ks[1]
    ELSE Interleave(ks, seps, n - 1) \o << seps[n - 1] >> \o ks[n]

Str_a == << "a" >>

Str_ctrl == << "c", "t", "r", "l" >>

Str_banana == << "b", "a", "n", "a", "n", "a" >>

KeyTokens ==
    { Str_ctrl, << "s", "h", "i", "f", "t" >>, Str_a,
      << "p", "l", "a", "y" >>, Str_banana }

\* every binding of 1..MaxBindingKeys keys, each two neighbours joined by
\* '-' (same chord) or ',' (next chord)
ShortBindings ==
    UNION { { Interleave(ks, seps, Len(ks)) :
                seps \in [1..(Len(ks) - 1) -> { "-", "," }] } :
            ks \in SeqsBetween(KeyTokens, 1, MaxBindingKeys) }

\* the lengths around MAX_KEY_PRESSES
LongLengths == (MAX_KEY_PRESSES - 1)..(MAX_KEY_PRESSES + 2)

LongBindings ==
    UNION { { Join(Repeat(Str_a, n), "-"),
              Join(Repeat(Str_a, n), ","),
              Join(Repeat(Join(<< Str_ctrl, Str_a >>, "-"), n), ","),
              Join(Repeat(Join(Repeat(Str_a, n), "-"), 2), ",") } :
            n \in LongLengths }
    \cup { Join(Repeat(Join(Repeat(Str_a, 10), "-"), 2), ",") }
    \cup { Repeat(",", U8_MAX) }

\* the bindings of the tests of messages.rs, a capitalised one, the empty one
NamedBindings ==
    { Join(<< Join(<< Str_ctrl, Str_a >>, "-"),
              Join(<< Str_ctrl, << "s" >> >>, "-") >>, ","),
      Join(<< << "C", "t", "r", "l" >>, << "A" >> >>, "-"),
      Join(<< Str_a, << "b" >> >>, ","),
      << >> }

KeyBindings == ShortBindings \cup LongBindings \cup NamedBindings

KeyLayers == { 1, 3 }

KeyPositions == { 1, 12 }

U8Samples == { 0, 1, 3, 12, U8_MAX }

\* the modes 0..5, and modes with bits a colour code has too
LedModes == (0..5) \cup { 16, 48, U8_MAX }

LedColors == { e[1] : e \in LedColorTable }

Orientations ==
    { << "n", "o", "r", "m", "a", "l" >>,
      << "s", "i", "d", "e", "w", "a", "y", "s" >> }

GridBindings == { Str_a, Str_banana }

KnobBindings == { Str_a, Str_banana, Join(Repeat(Str_a, MAX_KEY_PRESSES + 1), "-") }

\* one button, no knob: every binding as the only button of the only layer
SingleButtonConfigs ==
    { Macropad(Device(o, 1, 1, 0), << Layer(<< << b >> >>, << >>) >>) :
        o \in { << "n", "o", "r", "m", "a", "l" >> }, b \in KeyBindings }

\* one button, one knob: every combination of knob bindings
KnobConfigs ==
    { Macropad(Device(<< "I", "n", "v", "e", "r", "t", "e", "d" >>, 1, 1, 1),
               << Layer(<< << Str_a >> >>, << Knob(k[1], k[2], k[3]) >>) >>) :
        k \in [1..3 -> KnobBindings] }

GridKnob == Knob(Str_a, Str_banana, Str_a)

\* every layer of up to MaxRows rows of up to MaxCols buttons and up to
\* MaxKnobs knobs
GridLayers ==
    { Layer(g, k) :
        g \in SeqsBetween(SeqsBetween(GridBindings, 0, MaxCols), 0, MaxRows),
        k \in SeqsBetween({ GridKnob }, 0, MaxKnobs) }

GridDevices == { <<2, 2, 1>>, <<1, 2, 0>> }

GridConfigs ==
    { Macropad(Device(<< "N", "o", "r", "m", "a", "l" >>, d[1], d[2], d[3]),
               << l >>) :
        d \in GridDevices, l \in GridLayers }

\* a well-formed layer of a 2 x 1 device with one knob, and one layer for
\* each way a layer can be wrong
DeckDevice == <<2, 1, 1>>

DeckLayers ==
    LET good == Knob(Str_a, Str_a, Str_a)
    IN  { Layer(<< << Str_a >>, << Str_a >> >>, << good >>),
          Layer(<< << Str_a >> >>, << good >>),
          Layer(<< << Str_a >>, << Str_a, Str_a >> >>, << good >>),
          Layer(<< << Str_a >>, << Str_banana >> >>, << good >>),
          Layer(<< << Str_a >>, << Str_a >> >>, << >>),
          Layer(<< << Str_a >>, << Str_a >> >>,
                << Knob(Str_banana, Str_a, Str_a) >>) }

\* every sequence of 0..MaxLayers of those layers
DeckConfigs ==
    { Macropad(Device(o, DeckDevice[1], DeckDevice[2], DeckDevice[3]), ls) :
        o \in Orientations, ls \in SeqsBetween(DeckLayers, 0, MaxLayers) }

Configs ==
    SingleButtonConfigs \cup KnobConfigs \cup GridConfigs \cup DeckConfigs

(***************************************************************************)
(* The calls.                                                              *)
(***************************************************************************)
Init ==
    /\ call = "none"
    /\ args = << >>
    /\ result = NoResult

ReadConfig ==
    /\ call = "none"
    /\ \E keys \in U8Samples, encoders \in U8Samples, layer \in U8Samples :
          /\ call' = "read_config"
          /\ args' = [keys |-> keys, encoders |-> encoders, layer |-> layer]
          /\ result' = OkMsg(read_config(keys, encoders, layer))

DeviceType ==
    /\ call = "none"
    /\ call' = "device_type"
    /\ args' = << >>
    /\ result' = OkMsg(device_type)

EndProgram ==
    /\ call = "none"
    /\ call' = "end_program"
    /\ args' = << >>
    /\ result' = OkMsg(end_program)

ProgramLed ==
    /\ call = "none"
    /\ \E mode \in LedModes, color \in LedColors :
          /\ call' = "program_led"
          /\ args' = [mode |-> mode, color |-> color]
          /\ result' = OkMsg(program_led(mode, color))

BuildKeyMsg ==
    /\ call = "none"
    /\ \E key_chord \in KeyBindings, layer \in KeyLayers,
          key_pos \in KeyPositions :
          /\ call' = "build_key_msg"
          /\ args' = [key_chord |-> key_chord, layer |-> layer,
                      key_pos |-> key_pos]
          /\ result' \in build_key_msg(key_chord, layer, key_pos, 0)

Validate ==
    /\ call = "none"
    /\ \E cfg \in Configs :
          /\ call' = "validate"
          /\ args' = [cfg |-> cfg]
          /\ result' = validate(cfg)

Return ==
    /\ call # "none"
    /\ call' = "none"
    /\ args' = << >>
    /\ result' = NoResult

NextMessages == ReadConfig \/ DeviceType \/ EndProgram \/ ProgramLed \/ Return

NextKeyMsg == BuildKeyMsg \/ Return

NextValidate == Validate \/ Return

Next == NextMessages \/ BuildKeyMsg \/ Validate

SpecMessages == Init /\ [][NextMessages]_vars

SpecKeyMsg == Init /\ [][NextKeyMsg]_vars

SpecValidate == Init /\ [][NextValidate]_vars

Spec == Init /\ [][Next]_vars

(***************************************************************************)
(* What the specification says of a binding: it is split on ',' into       *)
(* chords and each chord on '-' into keys, and a key resolves, by its      *)
(* canonical name, to a Modifier, a WellKnownCode, a MediaCode or nothing. *)
(***************************************************************************)
ChordsOf(binding) == split(binding, ",")

KeysOf(chord) == split(chord, "-")

KeyKind(key) ==
    IF Modifier_from_str(uppercase_first(key)).ok THEN "Modifier"
    ELSE IF WellKnownCode_from_str(uppercase_first(key)).ok THEN "WellKnownKey"
    ELSE IF MediaCode_from_str(uppercase_first(key)).ok THEN "MediaKey"
    ELSE "NotFound"

KeyCode(key) ==
    CASE KeyKind(key) = "Modifier" -> Modifier_from_str(key).code
      [] KeyKind(key) = "WellKnownKey" -> WellKnownCode_from_str(key).code
      [] KeyKind(key) = "MediaKey" -> MediaCode_from_str(key).code
      [] OTHER -> 0

\* the keys of a binding that resolve to nothing
UnknownKeys(binding) ==
    { k \in UNION { { KeysOf(c)[n] : n \in 1..Len(KeysOf(c)) } :
                    c \in { ChordsOf(binding)[m] :
                            m \in 1..Len(ChordsOf(binding)) } } :
        KeyKind(k) = "NotFound" }

ChordsWithin(binding) ==
    \A m \in 1..Len(ChordsOf(binding)) :
        Len(KeysOf(ChordsOf(binding)[m])) <= MAX_KEY_PRESSES

\* the keys of a binding that resolve to nothing and have a name to report
NamedUnknownKeys(binding) == UnknownKeys(binding) \ { << >> }

\* every key resolves and every chord has at most MAX_KEY_PRESSES keys
ValidBinding(binding) == UnknownKeys(binding) = {} /\ ChordsWithin(binding)

\* the pairs the encoder counts: one for a chord of one key, one for every
\* key after the first of a longer chord
PairsOf(chord) == IF Len(KeysOf(chord)) > 1 THEN Len(KeysOf(chord)) - 1 ELSE 1

RECURSIVE PairsUpTo(_, _)
PairsUpTo(chords, n) ==
    IF n = 0 THEN 0 ELSE PairsOf(chords[n]) + PairsUpTo(chords, n - 1)

AllZeroFrom(msg, i) == \A n \in i..Len(msg) : msg[n] = 0

\* C1: build_key_msg returns exactly 65 bytes for every valid binding (every
\* key resolves, every chord has 1..MAX_KEY_PRESSES keys, at most
\* MAX_KEY_PRESSES chords), for every layer and key position.
C1_AlwaysSixtyFiveBytes ==
    ( /\ call = "build_key_msg"
      /\ ValidBinding(args.key_chord)
      /\ Len(ChordsOf(args.key_chord)) <= MAX_KEY_PRESSES )
    => (result.kind = "Ok" /\ Len(result.msg) = 65)

(***************************************************************************)
(* What the specification says of a configuration.                         *)
(***************************************************************************)
OrientationOk(cfg) ==
    Orientation_from_str(uppercase_first(cfg.device.orientation))

LayerCountOk(cfg) == Len(cfg.layers) \in 1..3

RowsOk(cfg, i) == Len(cfg.layers[i].buttons) = cfg.device.rows

ColsOk(cfg, i, j) == Len(cfg.layers[i].buttons[j]) = cfg.device.cols

KnobsOk(cfg, i) == Len(cfg.layers[i].knobs) = cfg.device.knobs

\* orientation, layer count and every layer's dimensions are right
ShapeOk(cfg) ==
    /\ OrientationOk(cfg)
    /\ LayerCountOk(cfg)
    /\ \A i \in 1..Len(cfg.layers) :
          /\ RowsOk(cfg, i)
          /\ \A j \in 1..Len(cfg.layers[i].buttons) : ColsOk(cfg, i, j)
          /\ KnobsOk(cfg, i)

ButtonBindingsOf(cfg) ==
    UNION { UNION { { cfg.layers[i].buttons[j][k] :
                      k \in 1..Len(cfg.layers[i].buttons[j]) } :
                    j \in 1..Len(cfg.layers[i].buttons) } :
            i \in 1..Len(cfg.layers) }

KnobBindingsOf(cfg) ==
    UNION { UNION { { cfg.layers[i].knobs[n].ccw, cfg.layers[i].knobs[n].click,
                      cfg.layers[i].knobs[n].cw } :
                    n \in 1..Len(cfg.layers[i].knobs) } :
            i \in 1..Len(cfg.layers) }

\* C2: validate succeeds on every configuration whose orientation, layer
\* count and dimensions are right and whose bindings are valid, a lone
\* modifier or a lone media key included. (Stated of the bindings of one
\* chord; those of several chords are C7's.)
C2_WellFormedValidates ==
    ( /\ call = "validate"
      /\ ShapeOk(args.cfg)
      /\ \A b \in ButtonBindingsOf(args.cfg) \cup KnobBindingsOf(args.cfg) :
            ValidBinding(b) /\ Len(ChordsOf(b)) = 1 )
    => result.kind = "Ok"

\* C3: a binding with a key that resolves to nothing makes both the encoder
\* and the validator fail with an unknown-key error naming that key; the
\* encoder returns no packet.
C3_UnknownKeyRejected ==
    /\ ( call = "build_key_msg" /\ NamedUnknownKeys(args.key_chord) # {} )
       => ( /\ result.kind = "Err"
            /\ result.err = "unknown key"
            /\ result.token \in NamedUnknownKeys(args.key_chord) )
    /\ ( /\ call = "validate"
         /\ ShapeOk(args.cfg)
         /\ \E b \in ButtonBindingsOf(args.cfg) : NamedUnknownKeys(b) # {} )
       => ( /\ result.kind = "Err"
            /\ result.err = "unknown key"
            /\ \E b \in ButtonBindingsOf(args.cfg) :
                  result.token \in NamedUnknownKeys(b) )

\* a binding that does not fit the fixed body
Unencodable(binding) ==
    \/ Len(ChordsOf(binding)) > U8_MAX
    \/ ~ChordsWithin(binding)
    \/ PairsUpTo(ChordsOf(binding), Len(ChordsOf(binding))) > MAX_KEY_PRESSES

\* C4: on a binding it cannot encode (a chord of more than MAX_KEY_PRESSES
\* keys, more pairs than MAX_KEY_PRESSES, more than 255 chords)
\* build_key_msg returns an error value: no panic, no packet.
C4_UnencodableIsError ==
    ( call = "build_key_msg" /\ Unencodable(args.key_chord) )
    => result.kind = "Err"

\* C5: a binding of one chord of one key gives one pair: (the modifier's
\* code, 0) for a Modifier, (0, the key's code) for a WellKnownKey or a
\* MediaKey.
C5_SingleKeyPair ==
    ( /\ call = "build_key_msg"
      /\ Len(ChordsOf(args.key_chord)) = 1
      /\ Len(KeysOf(args.key_chord)) = 1
      /\ KeyKind(args.key_chord) # "NotFound" )
    => ( /\ result.kind = "Ok"
         /\ Len(result.msg) >= 13
         /\ result.msg[12] = ( IF KeyKind(args.key_chord) = "Modifier"
                               THEN KeyCode(args.key_chord) ELSE 0 )
         /\ result.msg[13] = ( IF KeyKind(args.key_chord) = "Modifier"
                               THEN 0 ELSE KeyCode(args.key_chord) )
         /\ AllZeroFrom(result.msg, 14) )

\* every chord is a Modifier followed by a WellKnownKey
ModifierKeyBinding(binding) ==
    \A m \in 1..Len(ChordsOf(binding)) :
        LET kc == KeysOf(ChordsOf(binding)[m])
        IN  /\ Len(kc) = 2
            /\ KeyKind(kc[1]) = "Modifier"
            /\ KeyKind(kc[2]) = "WellKnownKey"

\* the modifier byte of a modifier: the bit its number names (ctrl, number
\* 0, is 0x01 in the packet of "ctrl-a,ctrl-s")
ModifierByte(key) == pow(2, KeyCode(key))

\* C6: for n modifier-key chords the packet is 03 fd key_pos layer 01 00 00
\* 00 00 00 n, then each chord's modifier byte and key code in order, then
\* zeros ("ctrl-a,ctrl-s" at layer 1, position 1: bytes 10..14 are
\* 02 01 04 01 16).
C6_ModifierKeyLayout ==
    ( call = "build_key_msg" /\ ModifierKeyBinding(args.key_chord) )
    => ( /\ result.kind = "Ok"
         /\ Len(result.msg) = 65
         /\ SubSeq(result.msg, 1, 11) =
               << 3, 253, args.key_pos, args.layer, 1, 0, 0, 0, 0, 0,
                  Len(ChordsOf(args.key_chord)) >>
         /\ \A m \in 1..Len(ChordsOf(args.key_chord)) :
               LET kc == KeysOf(ChordsOf(args.key_chord)[m])
               IN  /\ result.msg[10 + 2 * m] = ModifierByte(kc[1])
                   /\ result.msg[11 + 2 * m] = KeyCode(kc[2])
         /\ AllZeroFrom(result.msg, 12 + 2 * Len(ChordsOf(args.key_chord))) )

\* every key is a WellKnownKey and every chord is within the limit
RegularBinding(binding) ==
    /\ ChordsWithin(binding)
    /\ \A m \in 1..Len(ChordsOf(binding)) :
          \A n \in 1..Len(KeysOf(ChordsOf(binding)[m])) :
              KeyKind(KeysOf(ChordsOf(binding)[m])[n]) = "WellKnownKey"

\* C7: validate applies the MAX_KEY_PRESSES limit to each comma-separated
\* chord: a binding is rejected for too many keys only if one chord is too
\* long, and a binding of several chords of known keys, each within the
\* limit, passes.
C7_LimitPerChord ==
    ( call = "validate" /\ ShapeOk(args.cfg) )
    => ( /\ ( result.kind = "Err" /\ result.err = "maximum key presses" )
            => \E b \in ButtonBindingsOf(args.cfg) : ~ChordsWithin(b)
         /\ ( /\ \A b \in ButtonBindingsOf(args.cfg) : RegularBinding(b)
              /\ \A b \in KnobBindingsOf(args.cfg) : RegularBinding(b) )
            => result.kind = "Ok" )

\* C8: validate fails when a knob's ccw, click or cw binding fails the
\* binding validation of the buttons.
C8_KnobBindingsChecked ==
    ( /\ call = "validate"
      /\ ShapeOk(args.cfg)
      /\ \E b \in KnobBindingsOf(args.cfg) :
            validate_key_mapping(b).kind = "Err" )
    => result.kind = "Err"

Bit(x, k) == (x \div pow(2, k)) % 2 = 1

\* C9: read_config, device_type, end_program and program_led return 65
\* bytes starting 03 fa, 03 fb, 03 fd, 03 fe; the arguments reach only
\* bytes 2-4 of read_config (keys, encoders, layer) and byte 12 of
\* program_led (colour code OR mode).
C9_FixedMessages ==
    /\ call = "read_config" =>
          /\ Len(result.msg) = 65
          /\ SubSeq(result.msg, 1, 5) =
                << 3, 250, args.keys, args.encoders, args.layer >>
          /\ \A i \in 6..65 : result.msg[i] = read_config(0, 0, 0)[i]
    /\ call = "device_type" =>
          /\ Len(result.msg) = 65
          /\ SubSeq(result.msg, 1, 2) = << 3, 251 >>
    /\ call = "end_program" =>
          /\ Len(result.msg) = 65
          /\ SubSeq(result.msg, 1, 2) = << 3, 253 >>
    /\ call = "program_led" =>
          /\ Len(result.msg) = 65
          /\ SubSeq(result.msg, 1, 2) = << 3, 254 >>
          /\ result.msg[13] \in 0..255
          /\ \A k \in 0..7 :
                Bit(result.msg[13], k) <=>
                   (Bit(LedColor_to_u8(args.color), k) \/ Bit(args.mode, k))
          /\ \A i \in (1..65) \ {13} :
                result.msg[i] = program_led(0, "Red")[i]

\* read_config with arguments that reach bytes 2-4, and program_led with a
\* mode whose bits the colour code does not have
C9_Witness ==
    \/ ( /\ call = "read_config"
         /\ args.keys = 12 /\ args.encoders = 3 /\ args.layer = 1
         /\ result.msg[3] = 12 /\ result.msg[4] = 3 /\ result.msg[5] = 1 )
    \/ ( /\ call = "program_led"
         /\ args.mode = 5 /\ args.color = "Purple"
         /\ result.msg[13] = 117 )

ButtonOk(cfg, i, j, k) ==
    validate_key_mapping(cfg.layers[i].buttons[j][k]).kind = "Ok"

\* row j of layer i passes its column check and all its button checks
RowClean(cfg, i, j) ==
    /\ ColsOk(cfg, i, j)
    /\ \A k \in 1..Len(cfg.layers[i].buttons[j]) : ButtonOk(cfg, i, j, k)

\* layer i passes every check made of it
LayerClean(cfg, i) ==
    /\ RowsOk(cfg, i)
    /\ \A j \in 1..Len(cfg.layers[i].buttons) : RowClean(cfg, i, j)
    /\ KnobsOk(cfg, i)

\* r is the outcome of the earliest failing check of cfg, in the order:
\* orientation, layer count, then per layer its row count, per row its
\* column count and its buttons left to right, then its knob count
EarliestFailure(cfg, r) ==
    IF r.kind = "Ok"
    THEN /\ OrientationOk(cfg) /\ LayerCountOk(cfg)
         /\ \A i \in 1..Len(cfg.layers) : LayerClean(cfg, i)
    ELSE IF r.err = "orientation" THEN ~OrientationOk(cfg)
    ELSE IF r.err = "number of layers"
    THEN OrientationOk(cfg) /\ ~LayerCountOk(cfg)
    ELSE /\ OrientationOk(cfg) /\ LayerCountOk(cfg)
         /\ \E i \in 1..Len(cfg.layers) :
               /\ \A h \in 1..(i - 1) : LayerClean(cfg, h)
               /\ CASE r.err = "rows mismatch" ->
                         /\ ~RowsOk(cfg, i)
                         /\ r.layer = i
                         /\ r.expected = cfg.device.rows
                         /\ r.found = Len(cfg.layers[i].buttons)
                    [] r.err = "knobs mismatch" ->
                         /\ RowsOk(cfg, i)
                         /\ \A j \in 1..Len(cfg.layers[i].buttons) :
                               RowClean(cfg, i, j)
                         /\ ~KnobsOk(cfg, i)
                         /\ r.layer = i
                    [] OTHER ->
                         /\ RowsOk(cfg, i)
                         /\ \E j \in 1..Len(cfg.layers[i].buttons) :
                               /\ \A g \in 1..(j - 1) : RowClean(cfg, i, g)
                               /\ IF r.err = "columns mismatch"
                                  THEN /\ ~ColsOk(cfg, i, j)
                                       /\ r.layer = i /\ r.row = j
                                  ELSE /\ ColsOk(cfg, i, j)
                                       /\ \E k \in 1..Len(cfg.layers[i].buttons[j]) :
                                             /\ \A f \in 1..(k - 1) :
                                                   ButtonOk(cfg, i, j, f)
                                             /\ ~ButtonOk(cfg, i, j, k)
                                             /\ r = validate_key_mapping(
                                                      cfg.layers[i].buttons[j][k])

\* C10: validate fails fast in a fixed order (orientation, layer count, then
\* per layer: row count, per row column count then buttons left to right,
\* then knob count): the error is that of the earliest failing check, and
\* a row-count mismatch names its layer.
C10_FailFastOrder ==
    call = "validate" => EarliestFailure(args.cfg, result)

\* a row mismatch reported for layer 2 although layer 3 is wrong as well
C10_Witness ==
    /\ call = "validate"
    /\ result.kind = "Err" /\ result.err = "rows mismatch" /\ result.layer = 2
    /\ Len(args.cfg.layers) = 3
    /\ ~LayerClean(args.cfg, 3)

=============================================================================
